---- MODULE Spec2Model ----
(***************************************************************************)
(* Graph rewriting engine of BUBR (src/src/grs.rs): the Vec-backed data    *)
(* graph store, the (HashMap, Symbol) pattern, the HashMap mapping, the    *)
(* structural matcher, the rewriter and Rule::matches / Rule::reduce.      *)
(* GRS.reduce and the strategy-driven reduction driver have no code in the *)
(* sources (only the struct GRS is declared); they are modelled from       *)
(* spec.md sections 4.6 and 4.7.                                           *)
(*                                                                         *)
(* Node ids are the u8 indices of the Vec store and are kept 0-based, so   *)
(* node id i lives at data[i + 1].                                         *)
(*                                                                         *)
(* The pure functions of the other modules (Rule::is_left_normal of        *)
(* src/src/trs.rs, Expr::reduce and Expr::parse of src/src/expr.rs, the    *)
(* matcher of src/src/grsng.rs) are operators, each applied by one action  *)
(* of a specification of its own whose initial states draw the argument    *)
(* from a bounded set.  The lexer of src/src/parser.rs, the exhaustion of  *)
(* the store and Rule::reduce taken step by step have specifications of    *)
(* their own as well.                                                      *)
(***************************************************************************)
EXTENDS Integers, Sequences, FiniteSets, TLC

(***************************************************************************)
(* Bounds of the model.                                                    *)
(***************************************************************************)
\* nodes the caller allocates while building the initial graph
MaxInitNodes == 2
\* argument edges the caller appends while building the initial graph
MaxEdges == 2
\* reductions are explored while the store holds at most this many nodes
MaxNodes == 4
\* nodes the strategy proposes in one run of the reduction driver
MaxRedexes == 2
\* terms (leaves and subterm heads) in the left-hand side of a TRS rule
MaxTerms == 3
\* constructors (Lambda, Val, Var, App) in an expression handed to Expr::reduce
MaxExprSize == 6
\* tokens in a sequence handed to Expr::parse
MaxTokens == 5

(***************************************************************************)
(* Program constants.                                                      *)
(***************************************************************************)
\* alloc panics with "storage exhausted" when the Vec reaches this length
IdLimit == 256

\* enum Value of the tests (the constructors the example rules use)
Values == {"Add", "Zero", "Succ"}

VARIABLES
    data,   \* the store: Vec<(Value, Vec<u8>)>
    pc,     \* position of the caller: "build", "run", "ask", "reduce", "done", "failed", "panic";
            \* "call", "returned" around a function; "alloc"; "matches", "matched",
            \* "rewrite", "rewritten" inside Rule::reduce
    last,   \* record of the last Rule / GRS call: arguments, result and snapshots
    grs,    \* the rule set handed to the reduction driver (indices into Rules)
    cur,    \* the node the strategy proposed last
    asked,  \* how many nodes the strategy has proposed in this run
    trace,  \* the calls the reduction driver has made, in order (the ids alloc returned)
    input,  \* the argument of a function: a TRS rule, an expression, a token sequence,
            \* a rule and a graph, the lexer
    output  \* what the function returned for it: a result, the tokens so far, or the
            \* calls in progress of a reduce taken step by step

vars == <<data, pc, last, grs, cur, asked, trace, input, output>>

(***************************************************************************)
(* Mapping: HashMap<Symbol, u8>.                                           *)
(***************************************************************************)
\* Mapping::new
EmptyMap == [v \in {} |-> 0]

\* a bind that keeps the id a variable is already bound to
Bind_KeepsFirst(m, var, id) ==
    [v \in (DOMAIN m) \cup {var} |-> IF v \in DOMAIN m THEN m[v] ELSE id]

\* Mapping::bind: HashMap::insert, a later binding replaces an earlier one
Bind(m, var, id) == [v \in (DOMAIN m) \cup {var} |-> IF v = var THEN id ELSE m[v]]

\* whether Mapping::get finds the key (self[&var] panics when it does not)
Bound(m, var) == var \in DOMAIN m

(***************************************************************************)
(* Data graph store: Vec<(Value, Vec<u8>)>.                                *)
(***************************************************************************)
\* DataGraphBody::new
NewGraph == << >>

\* DataGraphBody::root
Root(g) == 0

\* whether indexing self[id as usize] is in bounds
InStore(g, id) == id \in 0 .. (Len(g) - 1)

\* DataGraphBody::value
Value(g, id) == g[id + 1].val

\* DataGraphBody::args
Args(g, id) == g[id + 1].args

\* an alloc that takes the length before the push: the id of the node before the new one
Alloc_IdBeforePush(g, func) ==
    [ data  |-> Append(g, [val |-> func, args |-> << >>]),
      id    |-> (Len(g) - 1) % IdLimit,
      panic |-> Len(g) + 1 = IdLimit ]

\* an alloc that panics only when the length has passed 256, after the u8 id
\* has wrapped around
Alloc_PanicsLate(g, func) ==
    [ data  |-> Append(g, [val |-> func, args |-> << >>]),
      id    |-> Len(g) % IdLimit,
      panic |-> Len(g) + 1 = IdLimit + 1 ]

\* DataGraphBody::alloc: push, then panic if the length reached 256
Alloc(g, func) ==
    [ data  |-> Append(g, [val |-> func, args |-> << >>]),
      id    |-> Len(g) % IdLimit,
      panic |-> Len(g) + 1 = IdLimit ]

\* DataGraphBody::append_arg
AppendArg(g, id, arg) == [g EXCEPT ![id + 1].args = Append(@, arg)]

\* a redirect that copies src over dst instead of exchanging the two slots
Redirect_CopySrcToDst(g, src, dst) == [g EXCEPT ![dst + 1] = g[src + 1]]

\* DataGraphBody::redirect: Vec::swap of the two slots
Redirect(g, src, dst) == [g EXCEPT ![src + 1] = g[dst + 1], ![dst + 1] = g[src + 1]]

(***************************************************************************)
(* Pattern: (HashMap<Symbol, (Value, Vec<Symbol>)>, Symbol).               *)
(***************************************************************************)
\* PatternBody::contains
Contains(p, var) == var \in DOMAIN p.nodes

\* PatternBody::value (self.0[&id] panics when the key is missing)
PValue(p, var) == p.nodes[var].val

\* PatternBody::args
PArgs(p, var) == p.nodes[var].args

\* PatternBody::root
PRoot(p) == p.root

\* length of Iterator::zip of two sequences
ZipLen(s, t) == IF Len(s) < Len(t) THEN Len(s) ELSE Len(t)

(***************************************************************************)
(* Matcher: PatternBody::matches.  The result is "Some", "None" or         *)
(* "panic" (an index into the pattern or the store that does not exist),   *)
(* together with the accumulator as the call left it.                      *)
(***************************************************************************)
RECURSIVE PatternMatches(_, _, _, _, _)
RECURSIVE MatchArgs(_, _, _, _, _, _)

\* a loop body whose leaf binding replaces the accumulated mapping
MatchArgs_LeafReplaces(p, pvars, ids, g, i, m) ==
    IF i > ZipLen(pvars, ids)
    THEN [st |-> "Some", m |-> m]
    ELSE IF Contains(p, pvars[i])
         THEN LET r == PatternMatches(p, pvars[i], g, ids[i], m)
              IN  IF r.st = "Some"
                  THEN MatchArgs(p, pvars, ids, g, i + 1, r.m)
                  ELSE r
         ELSE MatchArgs(p, pvars, ids, g, i + 1, Bind(EmptyMap, pvars[i], ids[i]))

RECURSIVE MatchArgs_ContinuesAfterFail(_, _, _, _, _, _)
\* a loop that goes on to the pairs after a failed one before it reports the failure
MatchArgs_ContinuesAfterFail(p, pvars, ids, g, i, m) ==
    IF i > ZipLen(pvars, ids)
    THEN [st |-> "Some", m |-> m]
    ELSE IF Contains(p, pvars[i])
         THEN LET r    == PatternMatches(p, pvars[i], g, ids[i], m)
                  rest == MatchArgs_ContinuesAfterFail(p, pvars, ids, g, i + 1, r.m)
              IN  IF r.st = "Some" THEN rest ELSE [st |-> r.st, m |-> rest.m]
         ELSE MatchArgs_ContinuesAfterFail(p, pvars, ids, g, i + 1, Bind(m, pvars[i], ids[i]))

\* the body of `for (var, id) in self.args(redex).zip(data.args(node))`, from pair i on
MatchArgs(p, pvars, ids, g, i, m) ==
    IF i > ZipLen(pvars, ids)
    THEN [st |-> "Some", m |-> m]
    ELSE IF Contains(p, pvars[i])
         THEN LET r == PatternMatches(p, pvars[i], g, ids[i], m)
              IN  IF r.st = "Some"
                  THEN MatchArgs(p, pvars, ids, g, i + 1, r.m)
                  ELSE r
         ELSE MatchArgs(p, pvars, ids, g, i + 1, Bind(m, pvars[i], ids[i]))

\* a matcher that fails when the two argument lists differ in length
PatternMatches_StrictArity(p, redex, g, node, m) ==
    IF ~Contains(p, redex) \/ ~InStore(g, node)
    THEN [st |-> "panic", m |-> m]
    ELSE IF PValue(p, redex) = Value(g, node) /\ Len(PArgs(p, redex)) = Len(Args(g, node))
         THEN MatchArgs(p, PArgs(p, redex), Args(g, node), g, 1, Bind(m, redex, node))
         ELSE [st |-> "None", m |-> m]

\* PatternBody::matches(redex, data, node, mapping)
PatternMatches(p, redex, g, node, m) ==
    IF ~Contains(p, redex) \/ ~InStore(g, node)
    THEN [st |-> "panic", m |-> m]
    ELSE IF PValue(p, redex) = Value(g, node)
         THEN MatchArgs(p, PArgs(p, redex), Args(g, node), g, 1, Bind(m, redex, node))
         ELSE [st |-> "None", m |-> m]

(***************************************************************************)
(* Rewriter: PatternBody::rewrite.  The store calls it makes are logged    *)
(* as [op, a, b]: alloc(a = new id), append_arg(a, b), redirect(a, b).     *)
(***************************************************************************)
LogAlloc(id) == [op |-> "alloc", a |-> id, b |-> -1]
LogAppend(id, arg) == [op |-> "append_arg", a |-> id, b |-> arg]
LogRedirect(src, dst) == [op |-> "redirect", a |-> src, b |-> dst]

RECURSIVE PatternRewrite(_, _, _, _, _)
RECURSIVE RewriteArgs(_, _, _, _, _, _, _)
RECURSIVE RewriteArgs_LeavesFirst(_, _, _, _, _, _, _)

\* a loop that appends the leaf arguments on its way down and the rewritten
\* contractum nodes on its way back, so nested nodes end up behind the leaves
RewriteArgs_LeavesFirst(p, pvars, i, id, g, log, m) ==
    IF i > Len(pvars)
    THEN [st |-> "ok", data |-> g, log |-> log, id |-> id]
    ELSE IF Contains(p, pvars[i])
         THEN LET rest == RewriteArgs_LeavesFirst(p, pvars, i + 1, id, g, log, m)
              IN  IF rest.st # "ok"
                  THEN rest
                  ELSE LET r == PatternRewrite(p, pvars[i], rest.data, rest.log, m)
                       IN  IF r.st = "ok"
                           THEN [st |-> "ok", data |-> AppendArg(r.data, id, r.id),
                                 log |-> Append(r.log, LogAppend(id, r.id)), id |-> id]
                           ELSE r
         ELSE IF Bound(m, pvars[i])
              THEN RewriteArgs_LeavesFirst(p, pvars, i + 1, id,
                                           AppendArg(g, id, m[pvars[i]]),
                                           Append(log, LogAppend(id, m[pvars[i]])), m)
              ELSE [st |-> "panic", data |-> g, log |-> log, id |-> id]

\* the body of `for var in self.args(contractum)`, from argument i on
RewriteArgs(p, pvars, i, id, g, log, m) ==
    IF i > Len(pvars)
    THEN [st |-> "ok", data |-> g, log |-> log, id |-> id]
    ELSE IF Contains(p, pvars[i])
         THEN LET r == PatternRewrite(p, pvars[i], g, log, m)
              IN  IF r.st = "ok"
                  THEN RewriteArgs(p, pvars, i + 1, id,
                                   AppendArg(r.data, id, r.id),
                                   Append(r.log, LogAppend(id, r.id)), m)
                  ELSE r
         ELSE IF Bound(m, pvars[i])
              THEN RewriteArgs(p, pvars, i + 1, id,
                               AppendArg(g, id, m[pvars[i]]),
                               Append(log, LogAppend(id, m[pvars[i]])), m)
              ELSE [st |-> "panic", data |-> g, log |-> log, id |-> id]

\* PatternBody::rewrite(contractum, data, mapping)
PatternRewrite(p, contractum, g, log, m) ==
    IF ~Contains(p, contractum)
    THEN [st |-> "panic", data |-> g, log |-> log, id |-> -1]
    ELSE LET a == Alloc(g, PValue(p, contractum))
         IN  IF a.panic
             THEN [st |-> "panic", data |-> a.data, log |-> log, id |-> -1]
             ELSE RewriteArgs(p, PArgs(p, contractum), 1, a.id, a.data,
                              Append(log, LogAlloc(a.id)), m)

(***************************************************************************)
(* Rule: redex, contractum, redirection.                                   *)
(***************************************************************************)
\* the result of a Rule call: st is "Some", "None" or "panic"; data the store as
\* the call left it; m the mapping of the match; mid the store between rewrite
\* and redirect; src, dst the redirected ids; log the store calls completed
RuleResult(st, g, m, mid, src, dst, log) ==
    [st |-> st, data |-> g, m |-> m, mid |-> mid, src |-> src, dst |-> dst, log |-> log]

\* Rule::matches with the start node as a parameter: a fresh mapping, then the matcher
RuleMatchesAt(rule, g, node) ==
    LET r == PatternMatches(rule.redex, PRoot(rule.redex), g, node, EmptyMap)
    IN  IF r.st = "Some" THEN r ELSE [st |-> r.st, m |-> EmptyMap]

\* Rule::matches: the match starts at data.root()
RuleMatches(rule, g) == RuleMatchesAt(rule, g, Root(g))

\* a reduce that instantiates the contractum before it looks at the match result
RuleReduceAt_RewriteFirst(rule, g, node) ==
    LET mt == RuleMatchesAt(rule, g, node)
        rw == PatternRewrite(rule.contractum, PRoot(rule.contractum), g, << >>, mt.m)
    IN  IF mt.st = "panic" \/ rw.st # "ok"
        THEN RuleResult("panic", rw.data, mt.m, rw.data, -1, -1, rw.log)
        ELSE IF mt.st = "None"
             THEN RuleResult("None", rw.data, EmptyMap, rw.data, -1, -1, rw.log)
             ELSE IF ~Bound(mt.m, rule.redirection[1]) \/ ~Bound(mt.m, rule.redirection[2])
                  THEN RuleResult("panic", rw.data, mt.m, rw.data, -1, -1, rw.log)
                  ELSE LET src == mt.m[rule.redirection[1]]
                           dst == mt.m[rule.redirection[2]]
                       IN  IF ~InStore(rw.data, src) \/ ~InStore(rw.data, dst)
                           THEN RuleResult("panic", rw.data, mt.m, rw.data, src, dst, rw.log)
                           ELSE RuleResult("Some", Redirect(rw.data, src, dst), mt.m, rw.data,
                                           src, dst, Append(rw.log, LogRedirect(src, dst)))

\* Rule::reduce with the start node as a parameter: match, rewrite, redirect
RuleReduceAt(rule, g, node) ==
    LET mt == RuleMatchesAt(rule, g, node)
    IN  IF mt.st # "Some"
        THEN RuleResult(mt.st, g, EmptyMap, g, -1, -1, << >>)
        ELSE LET rw == PatternRewrite(rule.contractum, PRoot(rule.contractum), g, << >>, mt.m)
             IN  IF rw.st # "ok"
                 THEN RuleResult("panic", rw.data, mt.m, rw.data, -1, -1, rw.log)
                 ELSE IF ~Bound(mt.m, rule.redirection[1]) \/ ~Bound(mt.m, rule.redirection[2])
                      THEN RuleResult("panic", rw.data, mt.m, rw.data, -1, -1, rw.log)
                      ELSE LET src == mt.m[rule.redirection[1]]
                               dst == mt.m[rule.redirection[2]]
                           IN  IF ~InStore(rw.data, src) \/ ~InStore(rw.data, dst)
                               THEN RuleResult("panic", rw.data, mt.m, rw.data, src, dst, rw.log)
                               ELSE RuleResult("Some", Redirect(rw.data, src, dst), mt.m, rw.data,
                                               src, dst, Append(rw.log, LogRedirect(src, dst)))

\* Rule::reduce: the match starts at data.root()
RuleReduce(rule, g) == RuleReduceAt(rule, g, Root(g))

(***************************************************************************)
(* The rules the reductions run with.  BookAddZero and BookAddSucc are the *)
(* first two rules of the commented test of grsng.rs; the others exercise  *)
(* a redirection between two redex variables, a redex node with more       *)
(* arguments than the data offers, a repeated leaf variable, and a nested  *)
(* contractum the redex root is redirected to.                             *)
(***************************************************************************)
\* a pattern node: (Value, Vec<Symbol>)
PNode(val, args) == [val |-> val, args |-> args]

\* a pattern: (HashMap<Symbol, (Value, Vec<Symbol>)>, Symbol)
Pat(nodes, root) == [nodes |-> nodes, root |-> root]

\* graph! {}: a pattern without nodes
EmptyPattern(root) == Pat([v \in {} |-> PNode("Zero", << >>)], root)

\* struct Rule { redex, contractum, redirection }
MkRule(redex, contractum, redirection) ==
    [redex |-> redex, contractum |-> contractum, redirection |-> redirection]

\* x: Add y z, z: Zero -> {}, x := z
BookAddZero ==
    MkRule(Pat([x |-> PNode("Add", <<"y", "z">>), z |-> PNode("Zero", << >>)], "x"),
           EmptyPattern("z"),
           <<"x", "z">>)

\* x: Add y z, y: Succ a -> m: Succ n, n: Add a z, x := m
BookAddSucc ==
    MkRule(Pat([x |-> PNode("Add", <<"y", "z">>), y |-> PNode("Succ", <<"a">>)], "x"),
           Pat([m |-> PNode("Succ", <<"n">>), n |-> PNode("Add", <<"a", "z">>)], "m"),
           <<"x", "m">>)

\* x: Add y z, z: Zero -> m: Zero, x := z
AddZeroNode ==
    MkRule(Pat([x |-> PNode("Add", <<"y", "z">>), z |-> PNode("Zero", << >>)], "x"),
           Pat([m |-> PNode("Zero", << >>)], "m"),
           <<"x", "z">>)

\* x: Succ y -> m: Add y y, x := y
SuccDouble ==
    MkRule(Pat([x |-> PNode("Succ", <<"y">>)], "x"),
           Pat([m |-> PNode("Add", <<"y", "y">>)], "m"),
           <<"x", "y">>)

\* x: Zero a b -> m: Succ x, x := a
ZeroWide ==
    MkRule(Pat([x |-> PNode("Zero", <<"a", "b">>)], "x"),
           Pat([m |-> PNode("Succ", <<"x">>)], "m"),
           <<"x", "a">>)

\* x: Add y y -> m: Succ y, x := y
AddSame ==
    MkRule(Pat([x |-> PNode("Add", <<"y", "y">>)], "x"),
           Pat([m |-> PNode("Succ", <<"y">>)], "m"),
           <<"x", "y">>)

\* x: Succ y -> m: Add n y, n: Succ y, x := m
SuccToAdd ==
    MkRule(Pat([x |-> PNode("Succ", <<"y">>)], "x"),
           Pat([m |-> PNode("Add", <<"n", "y">>), n |-> PNode("Succ", <<"y">>)], "m"),
           <<"x", "m">>)

Rules == <<BookAddZero, BookAddSucc, AddZeroNode, SuccDouble, ZeroWide, AddSame, SuccToAdd>>

\* the rule sets GRS.reduce runs with (struct GRS(Vec<Rule>)), as indices into Rules
GRSs == {<<3, 6>>, <<1, 2, 4>>, <<3>>}

(***************************************************************************)
(* GRS.reduce(data, node): the rules in sequence order, the first one that *)
(* reduces ends the call (spec.md 4.6).                                    *)
(***************************************************************************)
RECURSIVE GRSReduceFrom(_, _, _, _, _)
\* the loop over the rules from index k on; tried lists the rules attempted
GRSReduceFrom(rs, k, g, node, tried) ==
    IF k > Len(rs)
    THEN [res |-> RuleResult("None", g, EmptyMap, g, -1, -1, << >>), tried |-> tried, rule |-> 0]
    ELSE LET r == RuleReduceAt(Rules[rs[k]], g, node)
             t == Append(tried, [rule |-> rs[k], st |-> r.st])
         IN  IF r.st = "None"
             THEN GRSReduceFrom(rs, k + 1, r.data, node, t)
             ELSE [res |-> r, tried |-> t, rule |-> rs[k]]

GRSReduce(rs, g, node) == GRSReduceFrom(rs, 1, g, node, << >>)

(***************************************************************************)
(* The record of the last Rule or GRS call.                                *)
(***************************************************************************)
Call(op, rule, rs, node, pre, r, tried) ==
    [op |-> op, rule |-> rule, rules |-> rs, node |-> node, pre |-> pre,
     st |-> r.st, m |-> r.m, mid |-> r.mid, src |-> r.src, dst |-> r.dst,
     log |-> r.log, tried |-> tried]

NoCall ==
    Call("none", 0, << >>, -1, << >>,
         RuleResult("none", << >>, EmptyMap, << >>, -1, -1, << >>), << >>)

\* number of argument edges in the store
RECURSIVE EdgeCount(_)
EdgeCount(g) == IF g = << >> THEN 0 ELSE Len(Head(g).args) + EdgeCount(Tail(g))

\* the ids the store has issued
Ids(g) == 0 .. (Len(g) - 1)

(***************************************************************************)
(* The caller: builds a graph through the store interface with ids the     *)
(* store issued, then calls Rule::matches, Rule::reduce and GRS.reduce on  *)
(* it.  A call that left the store as it was (pc "idle") is followed only   *)
(* by the same grs.reduce call again (pc "repeated"): any other call from  *)
(* there is a call the caller could have made before it.                   *)
(***************************************************************************)
Init ==
    /\ data = NewGraph
    /\ pc = "build"
    /\ last = NoCall
    /\ grs = << >>
    /\ cur = -1
    /\ asked = 0
    /\ trace = << >>
    /\ input = << >>
    /\ output = << >>

DriverIdle == UNCHANGED <<grs, cur, asked, trace, input, output>>

\* whether the caller may make a new call now
CanCall == pc \in {"build", "run"}

\* whether the caller may repeat its last grs.reduce(data, node) now
CanRepeat(rs, node) ==
    pc = "idle" /\ last.op = "grs_reduce" /\ last.rules = rs /\ last.node = node

\* where the caller stands after a call that ended with st and left the store as g
After(st, g) ==
    IF st = "panic" THEN "panic"
    ELSE IF g # data THEN "run"
    ELSE IF pc = "idle" THEN "repeated" ELSE "idle"

\* data.alloc(func)
AllocOp(func) ==
    /\ pc = "build"
    /\ Len(data) < MaxInitNodes
    /\ data' = Alloc(data, func).data
    /\ pc' = IF Alloc(data, func).panic THEN "panic" ELSE "build"
    /\ UNCHANGED last
    /\ DriverIdle

\* data.append_arg(id, arg)
AppendArgOp(id, arg) ==
    /\ pc = "build"
    /\ EdgeCount(data) < MaxEdges
    /\ data' = AppendArg(data, id, arg)
    /\ UNCHANGED <<pc, last>>
    /\ DriverIdle

\* data.redirect(src, dst)
RedirectOp(src, dst) ==
    /\ pc = "build"
    /\ data' = Redirect(data, src, dst)
    /\ UNCHANGED <<pc, last>>
    /\ DriverIdle

\* rule.matches(&data)
RuleMatchesOp(k) ==
    /\ CanCall
    /\ LET r == RuleMatches(Rules[k], data)
       IN  /\ last' = Call("matches", k, << >>, Root(data), data,
                           RuleResult(r.st, data, r.m, data, -1, -1, << >>), << >>)
           /\ pc' = After(r.st, data)
    /\ UNCHANGED data
    /\ DriverIdle

\* rule.reduce(&mut data)
RuleReduceOp(k) ==
    /\ CanCall
    /\ LET r == RuleReduce(Rules[k], data)
       IN  /\ Len(r.data) <= MaxNodes
           /\ data' = r.data
           /\ last' = Call("reduce", k, << >>, Root(data), data, r, << >>)
           /\ pc' = After(r.st, r.data)
    /\ DriverIdle

\* grs.reduce(&mut data, node)
GRSReduceOp(rs, node) ==
    /\ (CanCall \/ CanRepeat(rs, node))
    /\ LET r == GRSReduce(rs, data, node)
       IN  /\ Len(r.res.data) <= MaxNodes
           /\ data' = r.res.data
           /\ last' = Call("grs_reduce", r.rule, rs, node, data, r.res, r.tried)
           /\ pc' = After(r.res.st, r.res.data)
    /\ DriverIdle

Next ==
    \/ \E func \in Values : AllocOp(func)
    \/ \E id \in Ids(data), arg \in Ids(data) : AppendArgOp(id, arg)
    \/ \E src \in Ids(data), dst \in Ids(data) : RedirectOp(src, dst)
    \/ \E k \in 1 .. Len(Rules) : RuleMatchesOp(k)
    \/ \E k \in 1 .. Len(Rules) : RuleReduceOp(k)
    \/ \E rs \in GRSs, node \in Ids(data) : GRSReduceOp(rs, node)

Spec == Init /\ [][Next]_vars

(***************************************************************************)
(* The reduction driver (spec.md 4.7):                                     *)
(*   while let Some(node) = strategy.next_redex(data) {                    *)
(*       grs.reduce(data, node)?;                                          *)
(*   }                                                                     *)
(* The strategy is any policy: each time it is asked it answers None or a  *)
(* node of the graph.                                                      *)
(***************************************************************************)
\* a data node: (Value, Vec<u8>)
Node(val, args) == [val |-> val, args |-> args]

\* {0: Add(1, 1), 1: Zero}
ExampleGraph == <<Node("Add", <<1, 1>>), Node("Zero", << >>)>>

\* the graphs the driver is started on
DriverGraphs ==
    { ExampleGraph,
      <<Node("Succ", <<1>>), Node("Add", <<0, 1>>)>>,
      <<Node("Add", <<1, 0>>), Node("Succ", <<0>>)>>,
      <<Node("Add", <<1, 2>>), Node("Succ", <<2>>), Node("Zero", << >>)>>,
      <<Node("Succ", <<1>>), Node("Zero", << >>)>>,
      <<Node("Zero", << >>)>> }

NextRedexEvent(st, node) == [ev |-> "next_redex", node |-> node, st |-> st]
ReduceEvent(st, node) == [ev |-> "reduce", node |-> node, st |-> st]

InitDriver ==
    /\ data \in DriverGraphs
    /\ grs \in GRSs
    /\ pc = "ask"
    /\ last = NoCall
    /\ cur = -1
    /\ asked = 0
    /\ trace = << >>
    /\ input = << >>
    /\ output = << >>

\* strategy.next_redex(data) returns Some(node)
StrategySome(node) ==
    /\ pc = "ask"
    /\ asked < MaxRedexes
    /\ cur' = node
    /\ asked' = asked + 1
    /\ trace' = Append(trace, NextRedexEvent("Some", node))
    /\ pc' = "reduce"
    /\ UNCHANGED <<data, last, grs, input, output>>

\* strategy.next_redex(data) returns None: the loop ends, the run succeeds
StrategyNone ==
    /\ pc = "ask"
    /\ trace' = Append(trace, NextRedexEvent("None", -1))
    /\ pc' = "done"
    /\ UNCHANGED <<data, last, grs, cur, asked, input, output>>

\* a driver that asks the strategy for another node after a failed reduce
AfterReduce_SkipFailure(st) ==
    IF st = "Some" \/ st = "None" THEN "ask" ELSE "panic"

\* a driver that takes a failed reduce for the normal form and ends successfully
AfterReduce_FailureIsDone(st) ==
    IF st = "Some" THEN "ask" ELSE IF st = "None" THEN "done" ELSE "panic"

\* where the driver stands after grs.reduce(data, node)? ended with st
AfterReduce(st) ==
    IF st = "Some" THEN "ask" ELSE IF st = "None" THEN "failed" ELSE "panic"

\* grs.reduce(data, node)?
DriverReduce ==
    /\ pc = "reduce"
    /\ LET r == GRSReduce(grs, data, cur)
       IN  /\ Len(r.res.data) <= MaxNodes
           /\ data' = r.res.data
           /\ last' = Call("grs_reduce", r.rule, grs, cur, data, r.res, r.tried)
           /\ trace' = Append(trace, ReduceEvent(r.res.st, cur))
           /\ pc' = AfterReduce(r.res.st)
    /\ UNCHANGED <<grs, cur, asked, input, output>>

NextDriver ==
    \/ \E node \in Ids(data) : StrategySome(node)
    \/ StrategyNone
    \/ DriverReduce

SpecDriver == InitDriver /\ [][NextDriver]_vars

(***************************************************************************)
(* Properties of Rule::matches and Rule::reduce.                           *)
(***************************************************************************)
\* the arguments of node id that refer to target
EdgesTo(g, id, target) == {i \in 1 .. Len(Args(g, id)) : Args(g, id)[i] = target}

\* C1: if Rule::matches returns None on a graph, Rule::reduce on that graph
\* returns None, leaves every node as it was (same node count, values and
\* argument lists) and makes no alloc, append_arg or redirect call.
C1_NoMatchNoMutation ==
    (last.op = "reduce" /\ RuleMatches(Rules[last.rule], last.pre).st = "None")
        => /\ last.st = "None"
           /\ data = last.pre
           /\ last.log = << >>

\* a reduce whose match got past the root value and failed at an inner node
C1_Witness ==
    /\ last.op = "reduce"
    /\ last.pre # << >>
    /\ PValue(Rules[last.rule].redex, PRoot(Rules[last.rule].redex)) = Value(last.pre, 0)
    /\ RuleMatches(Rules[last.rule], last.pre).st = "None"
    /\ last.st = "None"

C3_ExampleMatches ==
    (last.op = "matches" /\ last.pre = ExampleGraph)
        => /\ last.rule = 1 => (last.st = "Some" /\ last.m = [x |-> 0, y |-> 1, z |-> 1])
           /\ last.rule = 2 => last.st = "None"

\* the first rule of the example has been matched against the example graph
C3_Witness ==
    /\ last.op = "matches"
    /\ last.pre = ExampleGraph
    /\ last.rule = 1
    /\ last.st = "Some"

\* C4: on {0: Add(1,1), 1: Zero}, Rule::reduce of the rule x:Add(y,z), z:Zero
\* -> {} with x := z returns Some(()) and afterwards node 0 is observed as the
\* Zero node without arguments that node 1 held.
C4_ExampleReduce ==
    (last.op = "reduce" /\ last.pre = ExampleGraph /\ last.rule = 1)
        => /\ last.st = "Some"
           /\ Value(data, 0) = "Zero"
           /\ Args(data, 0) = << >>

\* C6: when the redex root and the data node have equal values, their argument
\* lists differ in length and every paired pattern argument is a leaf variable,
\* the match succeeds and binds the root and exactly the paired arguments; the
\* arguments beyond the shorter list are ignored.
C6_ArityZip ==
    LET redex == Rules[last.rule].redex
        pvars == PArgs(redex, PRoot(redex))
        ids   == Args(last.pre, 0)
        n     == ZipLen(pvars, ids)
    IN  ( /\ last.op = "matches"
          /\ last.pre # << >>
          /\ PValue(redex, PRoot(redex)) = Value(last.pre, 0)
          /\ Len(pvars) # Len(ids)
          /\ \A i \in 1 .. n : ~Contains(redex, pvars[i]) )
            => /\ last.st = "Some"
               /\ DOMAIN last.m = {PRoot(redex)} \cup {pvars[i] : i \in 1 .. n}
               /\ \A i \in 1 .. n : \E j \in 1 .. n : pvars[j] = pvars[i] /\ last.m[pvars[i]] = ids[j]

\* a successful match of a redex root that has more arguments than the data node
C6_Witness ==
    LET redex == Rules[last.rule].redex
    IN  /\ last.op = "matches"
        /\ last.pre # << >>
        /\ PValue(redex, PRoot(redex)) = Value(last.pre, 0)
        /\ Len(PArgs(redex, PRoot(redex))) > Len(Args(last.pre, 0))
        /\ last.st = "Some"

(***************************************************************************)
(* Properties of GRS.reduce.                                               *)
(***************************************************************************)
\* the rules of rs, by position, whose redex matches at node
Matching(rs, g, node) ==
    {j \in 1 .. Len(rs) : RuleMatchesAt(Rules[rs[j]], g, node).st # "None"}

\* the first position of a non-empty set of positions
First(js) == CHOOSE j \in js : \A k \in js : j <= k

\* C7: GRS.reduce(data, node) attempts the rules in sequence order and stops
\* at the first rule that does not return None: every rule attempted before
\* the last one returned None, the rule that ended the call is the earliest
\* rule whose redex matches at the node, the graph after the call is the graph
\* that rule alone produces from the graph before the call, and the result is
\* None only if every rule was attempted and no redex matches (the graph is
\* then unchanged).
C7_FirstRuleCommits ==
    last.op = "grs_reduce"
        => LET n  == Len(last.tried)
               ms == Matching(last.rules, last.pre, last.node)
           IN  /\ n <= Len(last.rules)
               /\ \A i \in 1 .. n : last.tried[i].rule = last.rules[i]
               /\ \A i \in 1 .. (n - 1) : last.tried[i].st = "None"
               /\ last.st = "None" <=> ms = {}
               /\ ms = {} => (n = Len(last.rules) /\ data = last.pre)
               /\ ms # {} => /\ n = First(ms)
                             /\ last.rule = last.rules[n]
                             /\ last.tried[n].st = last.st
                             /\ data = RuleReduceAt(Rules[last.rules[n]], last.pre, last.node).data

\* a call in which two rules with different effects match at the node and the
\* earlier one reduced
C7_Witness ==
    /\ last.op = "grs_reduce"
    /\ last.st = "Some"
    /\ \E j, k \in Matching(last.rules, last.pre, last.node) :
          /\ j < k
          /\ LET rj == RuleReduceAt(Rules[last.rules[j]], last.pre, last.node)
                 rk == RuleReduceAt(Rules[last.rules[k]], last.pre, last.node)
             IN  rj.st = "Some" /\ rk.st = "Some" /\ rj.data # rk.data

\* C8: when grs.reduce(data, node) returned None, the same call made again
\* returns None again and leaves the graph equal to the graph before the first
\* call.
C8_FailedReduceIdempotent ==
    [][ ( /\ last.op = "grs_reduce"
          /\ last.st = "None"
          /\ last'.op = "grs_reduce"
          /\ last'.rules = last.rules
          /\ last'.node = last.node )
            => (last'.st = "None" /\ data' = last.pre) ]_vars

\* a failed grs.reduce has been repeated
C8_Witness ==
    /\ pc = "repeated"
    /\ last.op = "grs_reduce"
    /\ last.st = "None"
    /\ Len(last.tried) > 1

(***************************************************************************)
(* Properties of the reduction driver.                                     *)
(***************************************************************************)
\* the positions of the trace that hold a grs.reduce call
ReduceCalls == {i \in 1 .. Len(trace) : trace[i].ev = "reduce"}

\* C9: once grs.reduce has returned None for a proposed node, the run has
\* ended with failure: that call is the last call the driver makes (the
\* strategy is not asked again, no reduce follows) and no step is left.
C9_FailureEndsRun ==
    /\ \A i \in ReduceCalls :
          trace[i].st = "None" => (i = Len(trace) /\ pc = "failed")
    /\ pc = "failed" => ~ENABLED NextDriver

\* a run that failed at its second node, after a first reduction succeeded
C9_Witness ==
    /\ pc = "failed"
    /\ Len(trace) = 4
    /\ trace[2].st = "Some"
    /\ trace[4].st = "None"

\* C10: the driver alternates between the strategy and the GRS: the calls at
\* odd positions ask the strategy, each node it returns is followed by one
\* grs.reduce call on that node before the strategy is asked again, and the
\* run has ended successfully exactly when the strategy's last answer is None,
\* in which case no reduce call of the run failed.
C10_DriverAlternates ==
    /\ \A i \in 1 .. Len(trace) :
          IF i % 2 = 1
          THEN /\ trace[i].ev = "next_redex"
               /\ trace[i].st = "Some" => IF i = Len(trace)
                                          THEN pc = "reduce" /\ cur = trace[i].node
                                          ELSE trace[i + 1].ev = "reduce"
               /\ trace[i].st = "None" => i = Len(trace)
          ELSE /\ trace[i].ev = "reduce"
               /\ trace[i - 1].st = "Some"
               /\ trace[i].node = trace[i - 1].node
    /\ pc = "done" <=> (trace # << >> /\ trace[Len(trace)] = NextRedexEvent("None", -1))
    /\ pc = "done" => \A i \in ReduceCalls : trace[i].st = "Some"
    /\ pc = "ask" => \A i \in ReduceCalls : trace[i].st = "Some"

\* a run that ended successfully after two reductions
C10_Witness ==
    /\ pc = "done"
    /\ Len(trace) = 5
    /\ trace[2].st = "Some"
    /\ trace[4].st = "Some"
    /\ trace[2].node # trace[4].node

(***************************************************************************)
(* Properties of the mapping, the store and the rewriter.                  *)
(***************************************************************************)
\* the variables that occur in a pattern: its nodes and their arguments
PatternVars(p) ==
    (DOMAIN p.nodes) \cup
    UNION {{PArgs(p, v)[i] : i \in 1 .. Len(PArgs(p, v))} : v \in DOMAIN p.nodes}

ValueCount(g, v) == Cardinality({i \in 1 .. Len(g) : g[i].val = v})

\* C12: no step of the caller (alloc, append_arg, redirect, Rule::reduce,
\* GRS.reduce) lowers the number of nodes, and no step removes a node: for
\* every value the store holds at least as many nodes with it as before.
C12_StoreOnlyGrows ==
    [][ /\ Len(data') >= Len(data)
        /\ \A v \in Values : ValueCount(data', v) >= ValueCount(data, v) ]_vars

\* a reduction that allocated nodes and redirected two different nodes
C12_Witness ==
    /\ last.op = "reduce"
    /\ last.st = "Some"
    /\ Len(data) > Len(last.pre)
    /\ last.src # last.dst
    /\ Value(last.pre, last.src) # Value(last.pre, last.dst)

\* C13: for every id the store has issued, value(id) is the same after every
\* step (alloc, append_arg, redirect, Rule::reduce, GRS.reduce) as before it.
C13_ValueFixed ==
    [][ \A id \in Ids(data) : InStore(data', id) /\ Value(data', id) = Value(data, id) ]_vars

\* the ids the calls of a log allocated before position i
AllocatedBefore(log, i) == {log[j].a : j \in {k \in 1 .. (i - 1) : log[k].op = "alloc"}}

\* C14: when Rule::reduce has called rewrite, every node that existed before
\* the call has, after rewrite, the value and the argument list it had before;
\* every append_arg of rewrite targets a node that the same rewrite allocated
\* earlier; and the id rewrite returns is an id of the store that did not exist
\* before the call.
C14_RewriteIsFresh ==
    (last.op \in {"reduce", "grs_reduce"} /\ last.log # << >>)
        => LET c  == Rules[last.rule].contractum
               rw == PatternRewrite(c, PRoot(c), last.pre, << >>, last.m)
           IN  /\ \A id \in Ids(last.pre) :
                     InStore(last.mid, id) /\ last.mid[id + 1] = last.pre[id + 1]
               /\ \A i \in 1 .. Len(last.log) :
                     last.log[i].op = "append_arg"
                         => /\ last.log[i].a \in AllocatedBefore(last.log, i)
                            /\ last.log[i].a \notin Ids(last.pre)
               /\ rw.st = "ok" => (rw.id \notin Ids(last.pre) /\ InStore(last.mid, rw.id))

\* a successful reduce on a graph of two nodes whose rewrite appended arguments
C14_Witness ==
    /\ last.op = "reduce"
    /\ last.st = "Some"
    /\ Len(last.pre) >= 2
    /\ \E i \in 1 .. Len(last.log) : last.log[i].op = "append_arg"

\* the nodes reachable from id along argument edges, in at most n steps
RECURSIVE Reach(_, _, _)
Reach(g, ids, n) ==
    IF n = 0 THEN ids
    ELSE Reach(g, ids \cup UNION {{Args(g, id)[i] : i \in 1 .. Len(Args(g, id))} :
                                      id \in {j \in ids : InStore(g, j)}}, n - 1)

\* C15: for a rule with a non-empty contractum whose redirection is
\* (redex root, contractum root), when the redex matches and every leaf
\* variable of the contractum is bound, Rule::reduce returns Some(()) and the
\* node rewrite allocated for the contractum root is what the redirected redex
\* id denotes, hence reachable from the graph root.
C15_ContractumVisible ==
    LET rule == Rules[last.rule]
        c    == rule.contractum
        rw   == PatternRewrite(c, PRoot(c), last.pre, << >>, last.m)
    IN  ( /\ last.op = "reduce"
          /\ Contains(c, PRoot(c))
          /\ rule.redirection = <<PRoot(rule.redex), PRoot(c)>>
          /\ RuleMatches(rule, last.pre).st = "Some"
          /\ rw.st = "ok" )
            => /\ last.st = "Some"
               /\ Value(data, Root(data)) = PValue(c, PRoot(c))
               /\ \E id \in Reach(data, {Root(data)}, Len(data)) :
                     InStore(data, id) /\ data[id + 1] = rw.data[rw.id + 1]

\* whether node id of g is an instance of pattern node var of the contractum c:
\* allocated by the rewrite (one of fresh), with the pattern node's value and
\* one argument per pattern argument, in order, a leaf variable resolved by
\* the mapping and an internal variable by an instance of it
RECURSIVE Instantiates(_, _, _, _, _, _)
Instantiates(c, var, g, id, m, fresh) ==
    /\ id \in fresh
    /\ InStore(g, id)
    /\ Value(g, id) = PValue(c, var)
    /\ Len(Args(g, id)) = Len(PArgs(c, var))
    /\ \A i \in 1 .. Len(PArgs(c, var)) :
          LET v == PArgs(c, var)[i]
          IN  IF Contains(c, v)
              THEN Instantiates(c, v, g, Args(g, id)[i], m, fresh)
              ELSE Bound(m, v) /\ Args(g, id)[i] = m[v]

\* C19: when the rewrite of Rule::reduce returns, the id it returns is a node
\* allocated by that rewrite whose value is the contractum root's value and
\* whose argument list has the length and the order of the pattern's: a leaf
\* variable's position holds mapping.get of it, an internal variable's
\* position holds a node allocated by the same rewrite that instantiates that
\* pattern node in the same way.
C19_RewriteInstantiates ==
    LET c  == Rules[last.rule].contractum
        rw == PatternRewrite(c, PRoot(c), last.pre, << >>, last.m)
    IN  (last.op = "reduce" /\ last.log # << >> /\ rw.st = "ok")
            => Instantiates(c, PRoot(c), last.mid, rw.id, last.m,
                            Ids(last.mid) \ Ids(last.pre))

\* a rewrite has returned for a contractum whose root has an internal argument
\* followed by a leaf argument
C19_Witness ==
    LET c  == Rules[last.rule].contractum
        rw == PatternRewrite(c, PRoot(c), last.pre, << >>, last.m)
    IN  /\ last.op = "reduce"
        /\ last.log # << >>
        /\ rw.st = "ok"
        /\ Len(PArgs(c, PRoot(c))) = 2
        /\ Contains(c, PArgs(c, PRoot(c))[1])
        /\ ~Contains(c, PArgs(c, PRoot(c))[2])

\* the leaf variables of a pattern
LeafVars(p) == PatternVars(p) \ DOMAIN p.nodes

\* C20: a successful match binds every variable that occurs in the redex, so
\* Rule::reduce of a rule with a non-empty contractum whose leaf variables and
\* redirection variables all occur in the redex reads no unbound variable and
\* returns Some(()) whenever the redex matches.
C20_RedexVarsBound ==
    LET rule == Rules[last.rule]
    IN  /\ (last.op = "matches" /\ last.st = "Some")
              => PatternVars(rule.redex) \subseteq DOMAIN last.m
        /\ ( /\ last.op = "reduce"
             /\ RuleMatches(rule, last.pre).st = "Some"
             /\ Contains(rule.contractum, PRoot(rule.contractum))
             /\ LeafVars(rule.contractum) \subseteq PatternVars(rule.redex)
             /\ {rule.redirection[1], rule.redirection[2]} \subseteq PatternVars(rule.redex) )
               => last.st = "Some"

(***************************************************************************)
(* Properties of the traversal of the matcher.                             *)
(***************************************************************************)
RECURSIVE Visit(_, _, _, _)
RECURSIVE VisitArgs(_, _, _, _, _)

\* the pairs (pattern variable, data node id) that a match of var against id
\* comes to in left-to-right depth-first order when no failure ends it, each
\* with whether its value comparison agrees (a leaf variable has none); the
\* arguments of a pair are paired only when its comparison agrees
Visit(p, var, g, id) ==
    IF ~Contains(p, var)
    THEN <<[var |-> var, id |-> id, ok |-> TRUE, leaf |-> TRUE]>>
    ELSE IF InStore(g, id) /\ PValue(p, var) = Value(g, id)
         THEN <<[var |-> var, id |-> id, ok |-> TRUE, leaf |-> FALSE]>>
                  \o VisitArgs(p, PArgs(p, var), Args(g, id), g, 1)
         ELSE <<[var |-> var, id |-> id, ok |-> FALSE, leaf |-> FALSE]>>

VisitArgs(p, pvars, ids, g, i) ==
    IF i > ZipLen(pvars, ids) THEN << >>
    ELSE Visit(p, pvars[i], g, ids[i]) \o VisitArgs(p, pvars, ids, g, i + 1)

\* the mapping that binds the pairs of a sequence one after the other
RECURSIVE BindAll(_, _)
BindAll(pairs, m) ==
    IF pairs = << >> THEN m
    ELSE BindAll(Tail(pairs), Bind(m, Head(pairs).var, Head(pairs).id))

\* the positions of a traversal whose value comparison fails
Failing(vs) == {i \in 1 .. Len(vs) : ~vs[i].ok}

\* C21: when the root values agree and the value of an internal pattern node
\* differs from the value of the data node paired with it, the match returns
\* None and the accumulator holds exactly the bindings of the pairs that come
\* before the first failing comparison in left-to-right depth-first order: no
\* pair after it is bound.
C21_FailFast ==
    LET redex == Rules[last.rule].redex
        r     == PatternMatches(redex, PRoot(redex), last.pre, last.node, EmptyMap)
        vs    == Visit(redex, PRoot(redex), last.pre, last.node)
    IN  (last.op = "matches" /\ vs[1].ok /\ Failing(vs) # {})
            => /\ last.st = "None"
               /\ r.st = "None"
               /\ r.m = BindAll(SubSeq(vs, 1, First(Failing(vs)) - 1), EmptyMap)

\* a match that failed at an internal node with a pair still to come whose
\* variable is left unbound
C21_Witness ==
    LET redex == Rules[last.rule].redex
        r     == PatternMatches(redex, PRoot(redex), last.pre, last.node, EmptyMap)
        vs    == Visit(redex, PRoot(redex), last.pre, last.node)
    IN  /\ last.op = "matches"
        /\ vs[1].ok
        /\ Failing(vs) # {}
        /\ last.st = "None"
        /\ \E i \in 1 .. Len(vs) : i > First(Failing(vs)) /\ ~Bound(r.m, vs[i].var)

\* the last position of a traversal that pairs the variable v
LastOf(vs, v) ==
    CHOOSE j \in 1 .. Len(vs) : vs[j].var = v /\ \A k \in 1 .. Len(vs) : vs[k].var = v => k <= j

\* C22: when no value comparison fails the match succeeds whatever ids the
\* occurrences of a leaf variable are paired with, and the mapping binds every
\* leaf variable to the id paired with its last occurrence in left-to-right
\* depth-first order.
C22_LastLeafWins ==
    LET redex == Rules[last.rule].redex
        vs    == Visit(redex, PRoot(redex), last.pre, last.node)
    IN  (last.op = "matches" /\ Failing(vs) = {})
            => /\ last.st = "Some"
               /\ \A i \in 1 .. Len(vs) :
                     vs[i].leaf => /\ Bound(last.m, vs[i].var)
                                   /\ last.m[vs[i].var] = vs[LastOf(vs, vs[i].var)].id

\* a successful match in which one leaf variable was paired with two different ids
C22_Witness ==
    LET redex == Rules[last.rule].redex
        vs    == Visit(redex, PRoot(redex), last.pre, last.node)
    IN  /\ last.op = "matches"
        /\ last.st = "Some"
        /\ \E i, j \in 1 .. Len(vs) :
              /\ i < j
              /\ vs[i].leaf
              /\ vs[i].var = vs[j].var
              /\ vs[i].id # vs[j].id
              /\ last.m[vs[i].var] = vs[j].id

\* C25: the redirect of a successful reduce changes only what src denotes:
\* after it value(dst) and args(dst) are what they were immediately before it,
\* so every node with an argument that refers to dst still finds dst's
\* previous content there.
C25_RedirectKeepsDst ==
    (last.op \in {"reduce", "grs_reduce"} /\ last.st = "Some")
        => /\ Value(data, last.dst) = Value(last.mid, last.dst)
           /\ Args(data, last.dst) = Args(last.mid, last.dst)

(***************************************************************************)
(* Exhaustion of the store: a caller that only allocates, until alloc      *)
(* panics.  input is the pair of values it allocates in turn, trace the    *)
(* ids alloc has returned, in order.                                       *)
(***************************************************************************)
InitAlloc ==
    /\ input \in Values \X Values
    /\ data = NewGraph
    /\ pc = "alloc"
    /\ trace = << >>
    /\ output = << >>
    /\ last = NoCall
    /\ grs = << >>
    /\ cur = -1
    /\ asked = 0

\* the value the caller passes to its next alloc
NextValue == input[(Len(data) % Len(input)) + 1]

\* data.alloc(func): the id is returned, or the call panics
AllocNextOp ==
    /\ pc = "alloc"
    /\ LET a == Alloc(data, NextValue)
       IN  /\ data' = a.data
           /\ pc' = IF a.panic THEN "panic" ELSE "alloc"
           /\ trace' = IF a.panic THEN trace ELSE Append(trace, a.id)
    /\ UNCHANGED <<last, grs, cur, asked, input, output>>

NextAlloc == AllocNextOp

SpecAlloc == InitAlloc /\ [][NextAlloc]_vars

\* C30: the ids alloc returns are 0, 1, 2, ... in allocation order, each the
\* index of its node and none returned before; no id wraps around modulo 256:
\* the store holds fewer than 256 nodes as long as alloc returns, and the
\* allocation that brings it to 256 nodes panics instead of returning an id;
\* the node last allocated has the value given and no arguments.
C30_AllocIds ==
    /\ \A i \in 1 .. Len(trace) :
          /\ trace[i] = i - 1
          /\ InStore(data, trace[i])
          /\ Value(data, trace[i]) = input[((i - 1) % Len(input)) + 1]
          /\ \A j \in 1 .. (i - 1) : trace[j] # trace[i]
    /\ trace # << >> => Args(data, trace[Len(trace)]) = << >>
    /\ pc = "alloc" => (Len(data) = Len(trace) /\ Len(data) < IdLimit)
    /\ pc = "panic" <=> Len(data) = IdLimit
    /\ pc = "panic" => Len(trace) = IdLimit - 1

\* the store is exhausted: 255 ids have been returned and the next alloc panicked
C30_Witness ==
    /\ pc = "panic"
    /\ Len(trace) = IdLimit - 1
    /\ trace[Len(trace)] = IdLimit - 2

(***************************************************************************)
(* The matcher of src/src/grsng.rs: Pattern::matches returns the mapping   *)
(* instead of filling an accumulator.  Mapping::bind(var, id) has no self: *)
(* it makes a mapping of one binding.  Mapping::merge has no               *)
(* implementation in the sources; it is modelled from spec.md 4.3 as the   *)
(* union of the two mappings, and which side wins on a variable bound in   *)
(* both is left open (bias).  The two matchers are called on the same      *)
(* rule and graph by one action of a specification of their own.           *)
(***************************************************************************)
\* Mapping::bind(var, id) -> Self
NgBind(var, id) == [v \in {var} |-> id]

\* which operand of merge wins on a variable bound in both
MergeBias == {"self", "other"}

\* Mapping::merge(self, other) -> Self
Merge(m, other, bias) ==
    [v \in (DOMAIN m) \cup (DOMAIN other) |->
        IF v \in DOMAIN other /\ (bias = "other" \/ v \notin DOMAIN m) THEN other[v] ELSE m[v]]

RECURSIVE NgMatches(_, _, _, _, _)
RECURSIVE NgMatchArgs(_, _, _, _, _, _, _)

\* the body of `for (var, id) in iter` of grsng.rs, from pair i on: an internal
\* pair merges the mapping of the recursive call, a leaf pair assigns
\* Self::Mp::bind(var, id) to mapping
NgMatchArgs(p, pvars, ids, g, i, m, bias) ==
    IF i > ZipLen(pvars, ids)
    THEN [st |-> "Some", m |-> m]
    ELSE IF Contains(p, pvars[i])
         THEN LET r == NgMatches(p, pvars[i], g, ids[i], bias)
              IN  IF r.st = "Some"
                  THEN NgMatchArgs(p, pvars, ids, g, i + 1, Merge(m, r.m, bias), bias)
                  ELSE r
         ELSE NgMatchArgs(p, pvars, ids, g, i + 1, NgBind(pvars[i], ids[i]), bias)

\* Pattern::matches(redex, data, node) of grsng.rs
NgMatches(p, redex, g, node, bias) ==
    IF ~Contains(p, redex) \/ ~InStore(g, node)
    THEN [st |-> "panic", m |-> EmptyMap]
    ELSE IF PValue(p, redex) = Value(g, node)
         THEN NgMatchArgs(p, PArgs(p, redex), Args(g, node), g, 1, NgBind(redex, node), bias)
         ELSE [st |-> "None", m |-> EmptyMap]

\* CanonicalRule::matches: the match starts at data.root()
NgRuleMatches(rule, g, bias) == NgMatches(rule.redex, PRoot(rule.redex), g, Root(g), bias)

\* nodes and argument edges of the graphs the two matchers are compared on
MaxMatchNodes == 2
MaxMatchEdges == 2

RECURSIVE GraphsWithEdges(_, _)
\* the graphs of n nodes built by e append_arg calls with ids of the store
GraphsWithEdges(n, e) ==
    IF e = 0
    THEN [1 .. n -> {Node(val, << >>) : val \in Values}]
    ELSE {AppendArg(g, id, arg) : g \in GraphsWithEdges(n, e - 1), id \in 0 .. (n - 1), arg \in 0 .. (n - 1)}

\* the graphs of at least one and at most n nodes and at most e argument edges
GraphsUpTo(n, e) == UNION {GraphsWithEdges(k, j) : k \in 1 .. n, j \in 0 .. e}

\* both matchers are called with every rule on every graph within the bounds
InitNg ==
    /\ input \in [rule : 1 .. Len(Rules), data : GraphsUpTo(MaxMatchNodes, MaxMatchEdges)]
    /\ output = << >>
    /\ pc = "call"
    /\ data = NewGraph
    /\ last = NoCall
    /\ grs = << >>
    /\ cur = -1
    /\ asked = 0
    /\ trace = << >>

\* rule.matches(&data) of grs.rs and of grsng.rs on the same rule and graph
MatchBothOp(bias) ==
    /\ pc = "call"
    /\ output' = [acc  |-> RuleMatches(Rules[input.rule], input.data),
                  ng   |-> NgRuleMatches(Rules[input.rule], input.data, bias),
                  bias |-> bias]
    /\ pc' = "returned"
    /\ UNCHANGED <<data, last, grs, cur, asked, trace, input>>

NextNg == \E bias \in MergeBias : MatchBothOp(bias)

SpecNg == InitNg /\ [][NextNg]_vars

\* whether m binds exactly the variables of the pairs of a traversal, each to
\* an id it was paired with
BindsVisited(m, vs) ==
    /\ DOMAIN m = {vs[i].var : i \in 1 .. Len(vs)}
    /\ \A v \in DOMAIN m : \E i \in 1 .. Len(vs) : vs[i].var = v /\ vs[i].id = m[v]

\* C23: a successful match, of grs.rs and of grsng.rs alike, returns the full
\* accumulated mapping: its domain is exactly the set of the pattern variables
\* the traversal paired (the redex root and every pattern argument paired with
\* a data argument, recursively), each bound to an id it was paired with; no
\* binding made earlier is lost when a later leaf variable is bound.
C23_FullMapping ==
    LET redex == Rules[input.rule].redex
        vs    == Visit(redex, PRoot(redex), input.data, Root(input.data))
    IN  pc = "returned"
            => /\ output.acc.st = "Some" => BindsVisited(output.acc.m, vs)
               /\ output.ng.st = "Some" => BindsVisited(output.ng.m, vs)

\* C26: the two matchers are equivalent: on every rule and graph the matcher
\* of grsng.rs returns None exactly when the matcher of grs.rs returns None,
\* and otherwise both return mappings with the same bindings.
C26_MatchersEquivalent ==
    pc = "returned"
        => /\ output.ng.st = "None" <=> output.acc.st = "None"
           /\ output.ng.st = "Some" => output.ng.m = output.acc.m

(***************************************************************************)
(* Term rewriting rules (src/src/trs.rs): Rule::is_left_normal.            *)
(***************************************************************************)
\* enum Term { Var(Sym), Const(Val), SubTerm(Val, Vec<Term>) }
TermVar(sym) == [tag |-> "Var", name |-> sym, args |-> << >>]
TermConst(val) == [tag |-> "Const", name |-> val, args |-> << >>]
TermSubTerm(val, ts) == [tag |-> "SubTerm", name |-> val, args |-> ts]

\* struct Rule(T::Val, Vec<Term<T>>, Vec<Term<T>>): function, left-hand side, right-hand side
TrsRule(func, lhs, rhs) == [func |-> func, lhs |-> lhs, rhs |-> rhs]

RECURSIVE IsLeftNormalRec(_, _)
RECURSIVE AllLeftNormal(_, _, _)

\* Iterator::all over ts from position i on, with the closure
\* |t| is_left_normal_rec(t, seen_var): stops at the first false
AllLeftNormal(ts, i, seen) ==
    IF i > Len(ts)
    THEN [ret |-> TRUE, seen |-> seen]
    ELSE LET r == IsLeftNormalRec(ts[i], seen)
         IN  IF r.ret THEN AllLeftNormal(ts, i + 1, r.seen) ELSE [ret |-> FALSE, seen |-> r.seen]

\* is_left_normal_rec: !(*seen_var) || match t { .. }; the match is evaluated
\* only when seen_var is already set
IsLeftNormalRec(t, seen) ==
    IF ~seen
    THEN [ret |-> TRUE, seen |-> seen]
    ELSE IF t.tag = "Var" THEN [ret |-> TRUE, seen |-> TRUE]
    ELSE IF t.tag = "Const" THEN [ret |-> ~seen, seen |-> seen]
    ELSE AllLeftNormal(t.args, 1, seen)

\* Rule::is_left_normal: seen_var starts false, all over the left-hand side
IsLeftNormal(rule) == AllLeftNormal(rule.lhs, 1, FALSE).ret

\* the leaves and subterm heads the rules are built from (tests: Symbols, Values)
TermLeaves == {TermVar("a"), TermVar("b"), TermConst("Cons"), TermConst("F")}
SubTermHeads == {"Cons"}
RuleHeads == {"Hd", "F"}

RECURSIVE TermsOfSize(_)
RECURSIVE TermListsOfSize(_)

\* the terms made of exactly n leaves and subterm heads
TermsOfSize(n) ==
    IF n = 0 THEN {}
    ELSE (IF n = 1 THEN TermLeaves ELSE {}) \cup
         {TermSubTerm(v, ts) : v \in SubTermHeads, ts \in TermListsOfSize(n - 1)}

\* the term lists made of exactly n leaves and subterm heads in total
TermListsOfSize(n) ==
    IF n = 0 THEN {<< >>}
    ELSE UNION {{<<t>> \o ts : t \in TermsOfSize(k), ts \in TermListsOfSize(n - k)} :
                    k \in 1 .. n}

\* the rules r1 .. r4 of test_is_left_normal
TestRule1 == TrsRule("Hd", <<TermSubTerm("Cons", <<TermVar("a"), TermVar("b")>>)>>, <<TermVar("b")>>)
TestRule2 == TrsRule("F", <<TermVar("a"), TermConst("Cons")>>, << >>)
TestRule3 == TrsRule("F", <<TermSubTerm("Cons", <<TermVar("a")>>), TermConst("F")>>, << >>)
TestRule4 ==
    TrsRule("F", <<TermSubTerm("Cons", <<TermVar("a"), TermVar("b")>>),
                   TermSubTerm("Cons", <<TermVar("c"), TermVar("d")>>)>>,
            <<TermConst("Int(0)")>>)

\* the rules whose left-hand side is made of at most n leaves and subterm heads
TrsRulesUpTo(n) ==
    {TrsRule(f, lhs, << >>) :
        f \in RuleHeads, lhs \in UNION {TermListsOfSize(k) : k \in 0 .. n}}

\* is_left_normal is called on the rules of the test and on every rule within
\* the bound
InitTrs ==
    /\ input \in {TestRule1, TestRule2, TestRule3, TestRule4} \cup TrsRulesUpTo(MaxTerms)
    /\ output = << >>
    /\ pc = "call"
    /\ data = NewGraph
    /\ last = NoCall
    /\ grs = << >>
    /\ cur = -1
    /\ asked = 0
    /\ trace = << >>

\* rule.is_left_normal()
IsLeftNormalOp ==
    /\ pc = "call"
    /\ output' = IsLeftNormal(input)
    /\ pc' = "returned"
    /\ UNCHANGED <<data, last, grs, cur, asked, trace, input>>

NextTrs == IsLeftNormalOp

SpecTrs == InitTrs /\ [][NextTrs]_vars

\* the Var and Const terms of a term list, left to right and depth first
RECURSIVE LeafTags(_)
LeafTags(ts) ==
    IF ts = << >> THEN << >>
    ELSE (IF Head(ts).tag = "SubTerm" THEN LeafTags(Head(ts).args) ELSE <<Head(ts).tag>>)
             \o LeafTags(Tail(ts))

\* no Const term occurs after a Var term
NoConstAfterVar(ts) ==
    LET tags == LeafTags(ts)
    IN  \A i, j \in 1 .. Len(tags) : (i < j /\ tags[i] = "Var") => tags[j] # "Const"

\* C16: Rule::is_left_normal returns true exactly when, reading the
\* left-hand-side terms left to right and depth first, no Const term occurs
\* after a Var term: true for Hd(Cons(a, b)), false for F(a, Cons) and for
\* F(Cons(a), F).
C16_IsLeftNormal ==
    pc = "returned"
        => /\ output = NoConstAfterVar(input.lhs)
           /\ input = TestRule1 => output = TRUE
           /\ input = TestRule2 => output = FALSE
           /\ input = TestRule3 => output = FALSE

(***************************************************************************)
(* Lambda expressions (src/src/expr.rs): Expr::reduce.                     *)
(***************************************************************************)
\* enum Expr { Lambda(Sym, Box<Expr>), Val(Val), Var(Sym), App(Box<Expr>, Box<Expr>) }
Lambda(sym, body) == [tag |-> "Lambda", sym |-> sym, val |-> 0, kids |-> <<body>>]
Val(v) == [tag |-> "Val", sym |-> "", val |-> v, kids |-> << >>]
Var(sym) == [tag |-> "Var", sym |-> sym, val |-> 0, kids |-> << >>]
App(func, arg) == [tag |-> "App", sym |-> "", val |-> 0, kids |-> <<func, arg>>]

\* the expression slot of a result that carries none
NoExpr == [tag |-> "None", sym |-> "", val |-> 0, kids |-> << >>]

\* Result: Ok(expression), Err(error), or a panic
Ok(e) == [st |-> "Ok", err |-> "", expr |-> e]
Err(err) == [st |-> "Err", err |-> err, expr |-> NoExpr]
Panicked == [st |-> "panic", err |-> "", expr |-> NoExpr]

\* SigmaRules for i32: the default implementation, Err(Error::default())
SigmaApply(func, x) == [ok |-> FALSE, val |-> 0]

\* Expr::sigma_reduce(func, arg)
SigmaReduce(func, arg) ==
    IF arg.tag = "Val"
    THEN LET a == SigmaApply(func, arg.val)
         IN  IF a.ok THEN Ok(Val(a.val)) ELSE Err("NotSigmaReducible")
    ELSE Panicked

RECURSIVE BetaReduce_ShadowStops(_, _, _)
\* a substitution that takes a Lambda binding var for a shadowing binder and
\* returns it as it is
BetaReduce_ShadowStops(e, var, exp) ==
    IF e.tag = "Var" /\ e.sym = var THEN Ok(exp)
    ELSE IF e.tag = "Lambda" /\ e.sym = var THEN Ok(e)
    ELSE IF e.tag = "Lambda"
         THEN LET b == BetaReduce_ShadowStops(e.kids[1], var, exp)
              IN  IF b.st = "Ok" THEN Ok(Lambda(e.sym, b.expr)) ELSE b
    ELSE IF e.tag = "App"
         THEN LET f == BetaReduce_ShadowStops(e.kids[1], var, exp)
                  x == BetaReduce_ShadowStops(e.kids[2], var, exp)
              IN  IF f.st # "Ok" THEN f
                  ELSE IF x.st # "Ok" THEN x
                  ELSE Ok(App(f.expr, x.expr))
    ELSE Ok(e)

RECURSIVE BetaReduce(_, _, _)
\* Expr::beta_reduce(self, var, exp): the arms of the match in order, `?`
\* returns the first error
BetaReduce(e, var, exp) ==
    IF e.tag = "Var" /\ e.sym = var THEN Ok(exp)
    ELSE IF e.tag = "Lambda" /\ e.sym = var THEN Err("NameCollision")
    ELSE IF e.tag = "Lambda"
         THEN LET b == BetaReduce(e.kids[1], var, exp)
              IN  IF b.st = "Ok" THEN Ok(Lambda(e.sym, b.expr)) ELSE b
    ELSE IF e.tag = "App"
         THEN LET f == BetaReduce(e.kids[1], var, exp)
                  x == BetaReduce(e.kids[2], var, exp)
              IN  IF f.st # "Ok" THEN f
                  ELSE IF x.st # "Ok" THEN x
                  ELSE Ok(App(f.expr, x.expr))
    ELSE Ok(e)

\* Expr::reduce(self)
Reduce(e) ==
    IF e.tag = "App"
    THEN LET f == e.kids[1]
             x == e.kids[2]
         IN  IF f.tag = "Lambda" THEN BetaReduce(f.kids[1], f.sym, x)
             ELSE IF f.tag = "Val" THEN SigmaReduce(f.val, x)
             ELSE Err("NotApplicable")
    ELSE Err("NotBetaReducible")

\* the symbols and constant values the expressions are built from
Syms == {"x", "y"}
Vals == {0}

RECURSIVE ExprsBySize(_)
\* the sequence whose k-th entry, k = 1 .. n, is the set of the expressions
\* made of exactly k constructors
ExprsBySize(n) ==
    IF n = 0 THEN << >>
    ELSE LET prev == ExprsBySize(n - 1)
         IN  Append(prev,
                 IF n = 1 THEN {Var(sym) : sym \in Syms} \cup {Val(v) : v \in Vals}
                 ELSE {Lambda(sym, b) : sym \in Syms, b \in prev[n - 1]} \cup
                      UNION {{App(f, x) : f \in prev[k], x \in prev[n - 1 - k]} :
                                 k \in 1 .. (n - 2)})

\* the three expressions of test_beta_reduction (f renamed y)
TestBeta1 == App(Lambda("x", Var("x")), Val(0))
TestBeta2 == App(Lambda("x", Lambda("y", Var("x"))), Val(0))
TestBeta3 == App(Lambda("y", App(Var("y"), Val(0))), Lambda("x", Var("x")))

\* the expressions made of at most n constructors
ExprsUpTo(n) ==
    LET sized == ExprsBySize(n)
    IN  UNION {sized[k] : k \in 1 .. n}

\* reduce is called on the expressions of the tests and on every expression
\* within the bound
InitReduce ==
    /\ input \in {TestBeta1, TestBeta2, TestBeta3} \cup ExprsUpTo(MaxExprSize)
    /\ output = << >>
    /\ pc = "call"
    /\ data = NewGraph
    /\ last = NoCall
    /\ grs = << >>
    /\ cur = -1
    /\ asked = 0
    /\ trace = << >>

\* expr.reduce()
ReduceOp ==
    /\ pc = "call"
    /\ output' = Reduce(input)
    /\ pc' = "returned"
    /\ UNCHANGED <<data, last, grs, cur, asked, trace, input>>

NextReduce == ReduceOp

SpecReduce == InitReduce /\ [][NextReduce]_vars

RECURSIVE Subst(_, _, _)
\* e with every Var(x) replaced by arg and everything else as it is
Subst(e, x, arg) ==
    IF e.tag = "Var" /\ e.sym = x THEN arg
    ELSE IF e.tag = "Lambda" THEN Lambda(e.sym, Subst(e.kids[1], x, arg))
    ELSE IF e.tag = "App" THEN App(Subst(e.kids[1], x, arg), Subst(e.kids[2], x, arg))
    ELSE e

RECURSIVE BindsIn(_, _)
\* whether e contains a Lambda that binds x
BindsIn(e, x) ==
    IF e.tag = "Lambda" THEN e.sym = x \/ BindsIn(e.kids[1], x)
    ELSE IF e.tag = "App" THEN BindsIn(e.kids[1], x) \/ BindsIn(e.kids[2], x)
    ELSE FALSE

\* C17: reduce on App(Lambda(x, body), arg) returns Err(NameCollision) if body
\* contains a Lambda binding x and otherwise Ok of body with every Var(x)
\* replaced by arg and everything else unchanged; on App(f, _) with f neither
\* Lambda nor Val it returns Err(NotApplicable); on an expression that is no
\* App it returns Err(NotBetaReducible).  In particular (\x.x) 0 reduces to 0,
\* (\x.\y.x) 0 to \y.0 and (\f.f 0) (\x.x) to (\x.x) 0.
C17_BetaReduction ==
    pc = "returned"
        => /\ IF input.tag = "App"
              THEN LET f   == input.kids[1]
                       arg == input.kids[2]
                   IN  /\ f.tag = "Lambda"
                           => output = IF BindsIn(f.kids[1], f.sym)
                                       THEN Err("NameCollision")
                                       ELSE Ok(Subst(f.kids[1], f.sym, arg))
                       /\ f.tag \notin {"Lambda", "Val"} => output = Err("NotApplicable")
              ELSE output = Err("NotBetaReducible")
           /\ input = TestBeta1 => output = Ok(Val(0))
           /\ input = TestBeta2 => output = Ok(Lambda("y", Val(0)))
           /\ input = TestBeta3 => output = Ok(App(Lambda("x", Var("x")), Val(0)))

\* a reduction that met a Lambda binding x below another binder of the body
C17_Witness ==
    /\ pc = "returned"
    /\ input.tag = "App"
    /\ input.kids[1].tag = "Lambda"
    /\ input.kids[1].kids[1].tag = "Lambda"
    /\ input.kids[1].kids[1].sym # input.kids[1].sym
    /\ output = Err("NameCollision")

(***************************************************************************)
(* Postfix token sequences (src/src/lib.rs) and Expr::parse                *)
(* (src/src/expr.rs).                                                      *)
(***************************************************************************)
\* enum Token { Id(Sym), Val(Val), Lambda, Apply }
TokId(sym) == [kind |-> "Id", sym |-> sym, val |-> 0]
TokVal(v) == [kind |-> "Val", sym |-> "", val |-> v]
TokLambda == [kind |-> "Lambda", sym |-> "", val |-> 0]
TokApply == [kind |-> "Apply", sym |-> "", val |-> 0]

\* the stack without its top n entries, and its entry n below the top
Popped(stack, n) == SubSeq(stack, 1, Len(stack) - n)
Peek(stack, n) == stack[Len(stack) - n]

RECURSIVE ParseFrom_ApplySwapped(_, _, _)
\* a parser whose Apply arm takes the function from the top of the stack
ParseFrom_ApplySwapped(tokens, i, stack) ==
    IF i > Len(tokens)
    THEN IF Len(stack) = 1 THEN Ok(stack[1]) ELSE Err("EOF")
    ELSE LET token == tokens[i]
         IN  IF token.kind = "Val"
             THEN ParseFrom_ApplySwapped(tokens, i + 1, Append(stack, Val(token.val)))
             ELSE IF token.kind = "Id"
             THEN ParseFrom_ApplySwapped(tokens, i + 1, Append(stack, Var(token.sym)))
             ELSE IF token.kind = "Lambda"
             THEN IF Len(stack) < 2 THEN Err("Underflow")
                  ELSE IF Peek(stack, 1).tag = "Var"
                       THEN ParseFrom_ApplySwapped(tokens, i + 1,
                                Append(Popped(stack, 2), Lambda(Peek(stack, 1).sym, Peek(stack, 0))))
                       ELSE Err("NotAVar")
             ELSE IF Len(stack) < 2 THEN Panicked
                  ELSE ParseFrom_ApplySwapped(tokens, i + 1,
                           Append(Popped(stack, 2), App(Peek(stack, 0), Peek(stack, 1))))

RECURSIVE ParseFrom(_, _, _)
\* the loop `for token in input` of Expr::parse from token i on, and the
\* check of the stack after it.  Lambda pops the body, then the argument, each
\* with ok_or(Underflow)?; Apply pops with unwrap(), which panics on an empty
\* stack
ParseFrom(tokens, i, stack) ==
    IF i > Len(tokens)
    THEN IF Len(stack) = 1 THEN Ok(stack[1]) ELSE Err("EOF")
    ELSE LET token == tokens[i]
         IN  IF token.kind = "Val"
             THEN ParseFrom(tokens, i + 1, Append(stack, Val(token.val)))
             ELSE IF token.kind = "Id"
             THEN ParseFrom(tokens, i + 1, Append(stack, Var(token.sym)))
             ELSE IF token.kind = "Lambda"
             THEN IF Len(stack) < 2 THEN Err("Underflow")
                  ELSE IF Peek(stack, 1).tag = "Var"
                       THEN ParseFrom(tokens, i + 1,
                                Append(Popped(stack, 2), Lambda(Peek(stack, 1).sym, Peek(stack, 0))))
                       ELSE Err("NotAVar")
             ELSE IF Len(stack) < 2 THEN Panicked
                  ELSE ParseFrom(tokens, i + 1,
                           Append(Popped(stack, 2), App(Peek(stack, 1), Peek(stack, 0))))

\* Expr::parse(input): the stack starts empty
Parse(tokens) == ParseFrom(tokens, 1, << >>)

\* the tokens the sequences are built from
Tokens == {TokId(sym) : sym \in Syms} \cup {TokVal(v) : v \in Vals} \cup {TokLambda, TokApply}

\* the token sequences of test_parse_simple0, 1 and 2
TestParse0 == <<TokId("x"), TokId("y"), TokApply>>
TestParse1 == <<TokId("x"), TokId("y"), TokLambda>>
TestParse2 == <<TokId("x"), TokId("y"), TokLambda, TokId("z"), TokApply>>

\* the token sequences of at most n tokens
TokenSeqsUpTo(n) == UNION {[1 .. k -> Tokens] : k \in 0 .. n}

\* parse is called on the sequences of the tests and on every sequence within
\* the bound
InitParse ==
    /\ input \in {TestParse0, TestParse1, TestParse2} \cup TokenSeqsUpTo(MaxTokens)
    /\ output = << >>
    /\ pc = "call"
    /\ data = NewGraph
    /\ last = NoCall
    /\ grs = << >>
    /\ cur = -1
    /\ asked = 0
    /\ trace = << >>

\* Expr::parse(input.iter())
ParseOp ==
    /\ pc = "call"
    /\ output' = Parse(input)
    /\ pc' = "returned"
    /\ UNCHANGED <<data, last, grs, cur, asked, trace, input>>

NextParse == ParseOp

SpecParse == InitParse /\ [][NextParse]_vars

RECURSIVE Postfix(_)
\* the postfix encoding of an expression: a leaf is its token, \s.b is
\* s b Lambda, (f a) is f a Apply
Postfix(e) ==
    IF e.tag = "Var" THEN <<TokId(e.sym)>>
    ELSE IF e.tag = "Val" THEN <<TokVal(e.val)>>
    ELSE IF e.tag = "Lambda" THEN <<TokId(e.sym)>> \o Postfix(e.kids[1]) \o <<TokLambda>>
    ELSE Postfix(e.kids[1]) \o Postfix(e.kids[2]) \o <<TokApply>>

\* the symbols and the leaf tokens of the sequences parse is called on (the
\* tests use x, y and z)
TokenSyms == Syms \cup {"z"}
LeafTokens == {TokId(sym) : sym \in TokenSyms} \cup {TokVal(v) : v \in Vals}

RECURSIVE EncodingsByLen(_)
\* the sequence whose k-th entry, k = 1 .. n, is the set of the token sequences
\* of length k that encode one expression
EncodingsByLen(n) ==
    IF n = 0 THEN << >>
    ELSE LET prev == EncodingsByLen(n - 1)
         IN  Append(prev,
                 IF n = 1 THEN {<<t>> : t \in LeafTokens}
                 ELSE (IF n = 2 THEN {}
                       ELSE {<<TokId(sym)>> \o b \o <<TokLambda>> : sym \in TokenSyms, b \in prev[n - 2]}) \cup
                      UNION {{f \o a \o <<TokApply>> : f \in prev[k], a \in prev[n - 1 - k]} :
                                 k \in 1 .. (n - 2)})

\* the encodings of one expression within the bound
Encodings ==
    LET enc == EncodingsByLen(MaxTokens)
    IN  UNION {enc[n] : n \in 1 .. MaxTokens}

RECURSIVE EncodesStack(_)
\* whether the tokens encode a stack of expressions, one encoding after the other
EncodesStack(tokens) ==
    \/ tokens = << >>
    \/ \E k \in 1 .. Len(tokens) :
          /\ SubSeq(tokens, 1, k) \in Encodings
          /\ EncodesStack(SubSeq(tokens, k + 1, Len(tokens)))

\* C18: parse evaluates the postfix sequence as a stack machine: it returns
\* Ok(e) exactly when the tokens encode the single expression e (Id and Val a
\* leaf, s b Lambda the expression Lambda(s, b), f a Apply the expression
\* App(f, a)), and Err(EOF) exactly when they encode a stack of zero or of more
\* than one expression.  In particular x y Apply parses to App(x, y),
\* x y Lambda to Lambda(x, y) and x y Lambda z Apply to App(Lambda(x, y), z).
C18_ParseStackMachine ==
    pc = "returned"
        => /\ output.st = "Ok" <=> input \in Encodings
           /\ output.st = "Ok" => Postfix(output.expr) = input
           /\ output = Err("EOF") <=> (EncodesStack(input) /\ input \notin Encodings)
           /\ input = TestParse0 => output = Ok(App(Var("x"), Var("y")))
           /\ input = TestParse1 => output = Ok(Lambda("x", Var("y")))
           /\ input = TestParse2 => output = Ok(App(Lambda("x", Var("y")), Var("z")))

\* the sequence of test_parse_simple2, which uses both operators, has been parsed
C18_Witness ==
    /\ pc = "returned"
    /\ input = TestParse2
    /\ output.st = "Ok"

\* how many expressions the stack holds after the first n tokens, when none of
\* them ended the parse: a leaf adds one, an operator takes two and adds one
StackDepth(tokens, n) ==
    Cardinality({i \in 1 .. n : tokens[i].kind \in {"Id", "Val"}})
        - Cardinality({i \in 1 .. n : tokens[i].kind \in {"Lambda", "Apply"}})

\* the positions of the operator tokens met with fewer than two expressions on
\* the stack before any other token has ended the parse
Underflows(tokens) ==
    {i \in 1 .. Len(tokens) :
        /\ tokens[i].kind \in {"Lambda", "Apply"}
        /\ StackDepth(tokens, i - 1) < 2
        /\ \A j \in 1 .. (i - 1) :
              /\ tokens[j].kind # "Lambda"
              /\ tokens[j].kind = "Apply" => StackDepth(tokens, j - 1) >= 2}

\* C29: parse never panics, and when an operator token, Lambda or Apply, is
\* met with fewer than two expressions on the stack it returns
\* Err(ParseError::Underflow).
C29_UnderflowIsError ==
    pc = "returned"
        => /\ output.st # "panic"
           /\ Underflows(input) # {} => output = Err("Underflow")

(***************************************************************************)
(* The lexer of the shorthand notation (src/src/parser.rs):                *)
(* SimpleLexer(I, State, PhantomData), an iterator of tokens over an       *)
(* iterator of characters.  The lexer is the record [text, pos, state]:    *)
(* the characters, how many of them self.0 has handed out, and self.1.     *)
(* A character is a string of length one, a word a sequence of characters. *)
(***************************************************************************)
\* characters in the input of the lexer
MaxChars == 4

\* the characters the inputs are made of: whitespace, three operators, and
\* characters of words
Chars == {" ", ":", "-", "=", "a", "x", "A"}

\* char::is_uppercase on the characters of the inputs
IsUppercase(c) == c \in {"A"}

\* enum Token: an operator token, NodeId(Id::from(k)) or Symbol(Val::from(k))
OpToken(kind) == [kind |-> kind, text |-> << >>]
NodeIdToken(k) == [kind |-> "NodeId", text |-> k]
SymbolToken(k) == [kind |-> "Symbol", text |-> k]

\* enum State { Start, Symbol(String), NodeId(String) }
LexState(tag, k) == [tag |-> tag, text |-> k]
LexStart == LexState("Start", << >>)

\* SimpleLexer::classify: the arms of the match in order; the arm
\* 'x' if c.is_uppercase() is taken by the character x when it is uppercase
Classify(c) ==
    IF c \in {" ", "\n", "\r", "\t"} THEN [type |-> "Whitespace", tok |-> OpToken("None")]
    ELSE IF c = "-" THEN [type |-> "Operator", tok |-> OpToken("ArrowShaft")]
    ELSE IF c = ">" THEN [type |-> "Operator", tok |-> OpToken("ArrowTip")]
    ELSE IF c = "(" THEN [type |-> "Operator", tok |-> OpToken("Open")]
    ELSE IF c = ")" THEN [type |-> "Operator", tok |-> OpToken("Close")]
    ELSE IF c = ":" THEN [type |-> "Operator", tok |-> OpToken("Colon")]
    ELSE IF c = "_" THEN [type |-> "Operator", tok |-> OpToken("Empty")]
    ELSE IF c = "=" THEN [type |-> "Operator", tok |-> OpToken("Redirect")]
    ELSE IF c = "x" /\ IsUppercase(c) THEN [type |-> "SymbolStart", tok |-> OpToken("None")]
    ELSE [type |-> "SymbolChar", tok |-> OpToken("None")]

\* enum Action: Next(state), EmitOne(token, state), EmitTwo(token, token)
ActNext(state) == [act |-> "Next", toks |-> << >>, state |-> state]
ActEmitOne(tok, state) == [act |-> "EmitOne", toks |-> <<tok>>, state |-> state]
ActEmitTwo(t1, t2) == [act |-> "EmitTwo", toks |-> <<t1, t2>>, state |-> LexStart]

\* SimpleLexer::lex(c) on the state taken out of self.1
Lex(state, c) ==
    LET ct == Classify(c)
    IN  IF state.tag = "Start"
        THEN IF ct.type = "Whitespace" THEN ActNext(LexStart)
             ELSE IF ct.type = "Operator" THEN ActEmitOne(ct.tok, LexStart)
             ELSE IF ct.type = "SymbolStart" THEN ActNext(LexState("Symbol", << >>))
             ELSE ActNext(LexState("NodeId", << >>))
        ELSE IF state.tag = "Symbol"
        THEN IF ct.type = "Whitespace" THEN ActEmitOne(SymbolToken(state.text), LexStart)
             ELSE IF ct.type = "Operator" THEN ActEmitTwo(SymbolToken(state.text), ct.tok)
             ELSE ActNext(LexState("Symbol", Append(state.text, c)))
        ELSE IF ct.type = "Whitespace" THEN ActEmitOne(NodeIdToken(state.text), LexStart)
             ELSE IF ct.type = "Operator" THEN ActEmitTwo(NodeIdToken(state.text), ct.tok)
             ELSE ActNext(LexState("NodeId", Append(state.text, c)))

\* the result of one next() call: whether it is Some, the token, and the lexer
\* as the call left it
LexResult(some, tok, lexer) == [some |-> some, tok |-> tok, lexer |-> lexer]

RECURSIVE LexerNext(_)
\* Iterator::next for SimpleLexer: characters are taken until an action emits;
\* EmitTwo(t1, t2) sets the state to Start and returns Some(t1)
LexerNext(lexer) ==
    IF lexer.pos = Len(lexer.text)
    THEN LexResult(FALSE, OpToken("None"), lexer)
    ELSE LET a    == Lex(lexer.state, lexer.text[lexer.pos + 1])
             took == [lexer EXCEPT !.pos = @ + 1]
         IN  IF a.act = "Next" THEN LexerNext([took EXCEPT !.state = a.state])
             ELSE IF a.act = "EmitOne"
                  THEN LexResult(TRUE, a.toks[1], [took EXCEPT !.state = a.state])
                  ELSE LexResult(TRUE, a.toks[1], [took EXCEPT !.state = LexStart])

\* the texts of at most n characters
TextsUpTo(n) == UNION {[1 .. k -> Chars] : k \in 0 .. n}

\* SimpleLexer::new(input) on every text within the bound
InitLex ==
    /\ input \in [text : TextsUpTo(MaxChars), pos : {0}, state : {LexStart}]
    /\ output = << >>
    /\ pc = "call"
    /\ data = NewGraph
    /\ last = NoCall
    /\ grs = << >>
    /\ cur = -1
    /\ asked = 0
    /\ trace = << >>

\* lexer.next(): a token is appended to the stream, None ends it
LexerNextOp ==
    /\ pc = "call"
    /\ LET r == LexerNext(input)
       IN  /\ input' = r.lexer
           /\ output' = IF r.some THEN Append(output, r.tok) ELSE output
           /\ pc' = IF r.some THEN "call" ELSE "returned"
    /\ UNCHANGED <<data, last, grs, cur, asked, trace>>

NextLex == LexerNextOp

SpecLex == InitLex /\ [][NextLex]_vars

\* the operator tokens of the operator characters of a text, in order
RECURSIVE OperatorsOf(_)
OperatorsOf(text) ==
    IF text = << >> THEN << >>
    ELSE (IF Classify(Head(text)).type = "Operator" THEN <<Classify(Head(text)).tok>> ELSE << >>)
             \o OperatorsOf(Tail(text))

\* the operator tokens of a token stream, in order
RECURSIVE OperatorTokens(_)
OperatorTokens(toks) ==
    IF toks = << >> THEN << >>
    ELSE (IF Head(toks).kind \notin {"NodeId", "Symbol"} THEN <<Head(toks)>> ELSE << >>)
             \o OperatorTokens(Tail(toks))

\* the positions of a text where an operator character immediately ends a word
WordEnds(text) ==
    {i \in 2 .. Len(text) :
        /\ Classify(text[i]).type = "Operator"
        /\ Classify(text[i - 1]).type \in {"SymbolStart", "SymbolChar"}}

\* C24: when the token stream has ended, no operator character of the input
\* is missing from it (its operator tokens are those of the input's operator
\* characters, in order), and for every operator character that immediately
\* ends a word the stream holds a word token followed by that operator's token.
C24_OperatorAfterWord ==
    pc = "returned"
        => /\ OperatorTokens(output) = OperatorsOf(input.text)
           /\ \A i \in WordEnds(input.text) :
                 \E j \in 1 .. (Len(output) - 1) :
                    /\ output[j].kind \in {"NodeId", "Symbol"}
                    /\ output[j + 1] = Classify(input.text[i]).tok

(***************************************************************************)
(* Rule::reduce of src/src/grs.rs step by step.  The recursive calls of    *)
(* PatternBody::matches and PatternBody::rewrite are activation frames on  *)
(* a stack: [var, id, i] is a call for pattern node var and data node id   *)
(* that stands before its first statement (i = 0) or before pair or        *)
(* argument i of its loop.  data is the store, input the rule, output the  *)
(* frames, the mapping and the id the last finished rewrite returned.      *)
(***************************************************************************)
\* x: Zero -> m: Add n o, n: Succ o, o: Zero, x := m: the third rule of the
\* commented test of grsng.rs, whose contractum refers to the node o from two
\* nodes, with Zero for its redex value Start
BookStart ==
    MkRule(Pat([x |-> PNode("Zero", << >>)], "x"),
           Pat([m |-> PNode("Add", <<"n", "o">>), n |-> PNode("Succ", <<"o">>),
                o |-> PNode("Zero", << >>)], "m"),
           <<"x", "m">>)

\* the rules reduce is run with step by step
StepRules == Append(Rules, BookStart)

Frame(var, id, i) == [var |-> var, id |-> id, i |-> i]

\* the calls in progress: stack, mapping, and the last returned id
Frames(stack, m, ret) == [stack |-> stack, m |-> m, ret |-> ret]

\* the stack with its top frame replaced
WithTop(stack, fr) == [stack EXCEPT ![Len(stack)] = fr]

\* the stack after its top frame has returned: the caller moves to its next pair
Returned(stack) ==
    LET rest == SubSeq(stack, 1, Len(stack) - 1)
    IN  IF rest = << >> THEN rest
        ELSE WithTop(rest, [rest[Len(rest)] EXCEPT !.i = @ + 1])

\* a matcher whose loop stays at a leaf pair after it has bound it
MatchStep_LeafStays(p, g, fs) ==
    LET fr    == fs.stack[Len(fs.stack)]
        pvars == PArgs(p, fr.var)
        ids   == Args(g, fr.id)
    IN  IF fr.i = 0
        THEN IF ~Contains(p, fr.var) \/ ~InStore(g, fr.id)
             THEN [pc |-> "panic", fs |-> fs]
             ELSE IF PValue(p, fr.var) = Value(g, fr.id)
                  THEN [pc |-> "matches",
                        fs |-> Frames(WithTop(fs.stack, [fr EXCEPT !.i = 1]),
                                      Bind(fs.m, fr.var, fr.id), fs.ret)]
                  ELSE [pc |-> "returned", fs |-> Frames(<< >>, EmptyMap, fs.ret)]
        ELSE IF fr.i > ZipLen(pvars, ids)
             THEN [pc |-> IF Len(fs.stack) = 1 THEN "matched" ELSE "matches",
                   fs |-> Frames(Returned(fs.stack), fs.m, fs.ret)]
             ELSE IF Contains(p, pvars[fr.i])
                  THEN [pc |-> "matches",
                        fs |-> Frames(Append(fs.stack, Frame(pvars[fr.i], ids[fr.i], 0)),
                                      fs.m, fs.ret)]
                  ELSE [pc |-> "matches",
                        fs |-> Frames(fs.stack, Bind(fs.m, pvars[fr.i], ids[fr.i]), fs.ret)]

\* one step of PatternBody::matches in its innermost call: the comparison and
\* the binding of the node, or one pair of the loop, or the return of Some(());
\* a None leaves every enclosing call through `?`
MatchStep(p, g, fs) ==
    LET fr    == fs.stack[Len(fs.stack)]
        pvars == PArgs(p, fr.var)
        ids   == Args(g, fr.id)
    IN  IF fr.i = 0
        THEN IF ~Contains(p, fr.var) \/ ~InStore(g, fr.id)
             THEN [pc |-> "panic", fs |-> fs]
             ELSE IF PValue(p, fr.var) = Value(g, fr.id)
                  THEN [pc |-> "matches",
                        fs |-> Frames(WithTop(fs.stack, [fr EXCEPT !.i = 1]),
                                      Bind(fs.m, fr.var, fr.id), fs.ret)]
                  ELSE [pc |-> "returned", fs |-> Frames(<< >>, EmptyMap, fs.ret)]
        ELSE IF fr.i > ZipLen(pvars, ids)
             THEN [pc |-> IF Len(fs.stack) = 1 THEN "matched" ELSE "matches",
                   fs |-> Frames(Returned(fs.stack), fs.m, fs.ret)]
             ELSE IF Contains(p, pvars[fr.i])
                  THEN [pc |-> "matches",
                        fs |-> Frames(Append(fs.stack, Frame(pvars[fr.i], ids[fr.i], 0)),
                                      fs.m, fs.ret)]
                  ELSE [pc |-> "matches",
                        fs |-> Frames(WithTop(fs.stack, [fr EXCEPT !.i = @ + 1]),
                                      Bind(fs.m, pvars[fr.i], ids[fr.i]), fs.ret)]

\* one step of PatternBody::rewrite in its innermost call: the alloc, or one
\* argument of the loop, or the return of id, which the caller appends
RewriteStep(p, g, fs) ==
    LET fr    == fs.stack[Len(fs.stack)]
        pvars == PArgs(p, fr.var)
    IN  IF fr.i = 0
        THEN IF ~Contains(p, fr.var)
             THEN [pc |-> "panic", data |-> g, fs |-> fs]
             ELSE LET a == Alloc(g, PValue(p, fr.var))
                  IN  [pc |-> IF a.panic THEN "panic" ELSE "rewrite",
                       data |-> a.data,
                       fs |-> Frames(WithTop(fs.stack, Frame(fr.var, a.id, 1)), fs.m, fs.ret)]
        ELSE IF fr.i > Len(pvars)
             THEN [pc |-> IF Len(fs.stack) = 1 THEN "rewritten" ELSE "rewrite",
                   data |-> IF Len(fs.stack) = 1 THEN g
                            ELSE AppendArg(g, fs.stack[Len(fs.stack) - 1].id, fr.id),
                   fs |-> Frames(Returned(fs.stack), fs.m, fr.id)]
             ELSE IF Contains(p, pvars[fr.i])
                  THEN [pc |-> "rewrite", data |-> g,
                        fs |-> Frames(Append(fs.stack, Frame(pvars[fr.i], -1, 0)), fs.m, fs.ret)]
                  ELSE IF Bound(fs.m, pvars[fr.i])
                       THEN [pc |-> "rewrite",
                             data |-> AppendArg(g, fr.id, fs.m[pvars[fr.i]]),
                             fs |-> Frames(WithTop(fs.stack, [fr EXCEPT !.i = @ + 1]),
                                           fs.m, fs.ret)]
                       ELSE [pc |-> "panic", data |-> g, fs |-> fs]

\* rule.reduce(&mut data) is called with every rule on every graph within the
\* bounds: matches is entered for (redex.root(), data.root()) with a new mapping
InitStep ==
    /\ input \in [rule : 1 .. Len(StepRules), data : GraphsUpTo(MaxMatchNodes, MaxMatchEdges)]
    /\ data = input.data
    /\ output = Frames(<<Frame(PRoot(StepRules[input.rule].redex), Root(input.data), 0)>>, EmptyMap, -1)
    /\ pc = "matches"
    /\ last = NoCall
    /\ grs = << >>
    /\ cur = -1
    /\ asked = 0
    /\ trace = << >>

\* a step of self.redex.matches(..)
MatchStepOp ==
    /\ pc = "matches"
    /\ LET r == MatchStep(StepRules[input.rule].redex, data, output)
       IN  /\ pc' = r.pc
           /\ output' = r.fs
    /\ UNCHANGED <<data, last, grs, cur, asked, trace, input>>

\* if let Some(mapping) = map: self.contractum.rewrite(..) is entered
RewriteCallOp ==
    /\ pc = "matched"
    /\ output' = Frames(<<Frame(PRoot(StepRules[input.rule].contractum), -1, 0)>>, output.m, -1)
    /\ pc' = "rewrite"
    /\ UNCHANGED <<data, last, grs, cur, asked, trace, input>>

\* a step of self.contractum.rewrite(..)
RewriteStepOp ==
    /\ pc = "rewrite"
    /\ LET r == RewriteStep(StepRules[input.rule].contractum, data, output)
       IN  /\ pc' = r.pc
           /\ data' = r.data
           /\ output' = r.fs
    /\ UNCHANGED <<last, grs, cur, asked, trace, input>>

\* data.redirect(mapping.get(redirection.0), mapping.get(redirection.1)); Some(())
RedirectStepOp ==
    /\ pc = "rewritten"
    /\ LET rule == StepRules[input.rule]
       IN  IF /\ Bound(output.m, rule.redirection[1])
              /\ Bound(output.m, rule.redirection[2])
              /\ InStore(data, output.m[rule.redirection[1]])
              /\ InStore(data, output.m[rule.redirection[2]])
           THEN /\ data' = Redirect(data, output.m[rule.redirection[1]], output.m[rule.redirection[2]])
                /\ pc' = "returned"
           ELSE /\ data' = data
                /\ pc' = "panic"
    /\ UNCHANGED <<last, grs, cur, asked, trace, input, output>>

NextStep ==
    \/ MatchStepOp
    \/ RewriteCallOp
    \/ RewriteStepOp
    \/ RedirectStepOp

\* the calls run on one thread to their end: a step that can be taken is taken
SpecStep == InitStep /\ [][NextStep]_vars /\ WF_vars(NextStep)

\* the pattern nodes reached from the nodes vs along arguments that are
\* pattern nodes, in at least one and at most n steps
RECURSIVE PatternReach(_, _, _)
PatternReach(p, vs, n) ==
    LET next == UNION {{PArgs(p, v)[i] : i \in 1 .. Len(PArgs(p, v))} : v \in vs} \cap DOMAIN p.nodes
    IN  IF n = 0 THEN {} ELSE next \cup PatternReach(p, next, n - 1)

\* whether the internal-node references of a pattern are acyclic
AcyclicPattern(p) ==
    \A v \in DOMAIN p.nodes : v \notin PatternReach(p, {v}, Cardinality(DOMAIN p.nodes))

\* whether some node of a graph reaches itself along argument edges
CyclicGraph(g) ==
    \E id \in Ids(g) :
        id \in Reach(g, {Args(g, id)[i] : i \in 1 .. Len(Args(g, id))}, Len(g))

\* whether the calls in progress are calls for different pattern nodes
NoNodeTwice(stack) ==
    \A i, j \in 1 .. Len(stack) : i # j => stack[i].var # stack[j].var

\* C27: on a redex whose internal-node references are acyclic matches comes
\* to its end on every data graph, cyclic ones included, and on an acyclic
\* contractum rewrite comes to its end: no pattern node has two calls in
\* progress, because the recursion follows the pattern only.
C27_Terminates ==
    /\ []((pc = "matches" /\ AcyclicPattern(StepRules[input.rule].redex)) => NoNodeTwice(output.stack))
    /\ []((pc = "rewrite" /\ AcyclicPattern(StepRules[input.rule].contractum)) => NoNodeTwice(output.stack))
    /\ (pc = "matches" /\ AcyclicPattern(StepRules[input.rule].redex)) ~> (pc # "matches")
    /\ (pc = "rewrite" /\ AcyclicPattern(StepRules[input.rule].contractum)) ~> (pc # "rewrite")

\* a reduce has returned Some(()) on a cyclic data graph after its match went
\* into an internal node of the redex and its rewrite allocated
C27_Witness ==
    /\ pc = "returned"
    /\ CyclicGraph(input.data)
    /\ Cardinality(DOMAIN StepRules[input.rule].redex.nodes) > 1
    /\ AcyclicPattern(StepRules[input.rule].redex)
    /\ AcyclicPattern(StepRules[input.rule].contractum)
    /\ Len(data) > Len(input.data)

\* C28: when rewrite has returned, every internal node of the contractum that
\* is reached from its root has been instantiated exactly once: the number of
\* nodes allocated is the number of those pattern nodes, and each of them has
\* one data node that stands for it at every argument position that refers to
\* it.
C28_SharingPreserved ==
    LET c     == StepRules[input.rule].contractum
        nodes == {PRoot(c)} \cup PatternReach(c, {PRoot(c)}, Cardinality(DOMAIN c.nodes))
        fresh == Ids(data) \ Ids(input.data)
    IN  pc = "rewritten"
            => /\ Cardinality(fresh) = Cardinality(nodes)
               /\ \E f \in [nodes -> fresh] :
                     /\ f[PRoot(c)] = output.ret
                     /\ \A v \in nodes :
                           /\ Value(data, f[v]) = PValue(c, v)
                           /\ Len(Args(data, f[v])) = Len(PArgs(c, v))
                           /\ \A i \in 1 .. Len(PArgs(c, v)) :
                                 Args(data, f[v])[i] =
                                     IF Contains(c, PArgs(c, v)[i])
                                     THEN f[PArgs(c, v)[i]]
                                     ELSE output.m[PArgs(c, v)[i]]

====
